---- MODULE Spec2Model ----
(***************************************************************************)
(* A model of the cassandra-dtest assertion helpers (assertions.py) and of *)
(* the scripted upgrade test (index_summary_upgrade_test.py).              *)
(*                                                                         *)
(* The assertion helpers are modelled as a test session: a system under    *)
(* test (db), the log of calls that reached it (calls), the number of      *)
(* assertions invoked so far (nasserts) and the record of the most recent  *)
(* assertion (last): its arguments, the system it ran against and how it  *)
(* ended.  A statement that a helper executes may change the system (ALTER *)
(* TABLE does); each assertion runs against the system as the one before   *)
(* it left it.  An assertion ends                                          *)
(* in one of three ways: it returns ("pass"), it raises AssertionError     *)
(* ("AssertionError"), or some other exception leaves it ("raised").       *)
(*                                                                         *)
(* Python values: an optional argument is a sequence of length 0 (None) or *)
(* 1; a list or tuple is a sequence; a string that is searched or compared *)
(* character by character is a sequence of characters or character codes.  *)
(***************************************************************************)
EXTENDS Integers, Sequences, FiniteSets, TLC

VARIABLES
    db,          \* the system under test: table rows, schema, failure mode, altered
    calls,       \* log of the calls that reached the system, oldest first
    nasserts,    \* number of assertion helpers invoked so far
    last,        \* the most recent assertion: helper, arguments, system, outcome
    pc,          \* upgrade test: the next statement of the script
    node_status, \* upgrade test: "UNINITIALIZED", "UP" or "DOWN"
    drained,     \* upgrade test: the node has logged DRAINED since its start
    cluster_dir, \* upgrade test: version of the cluster's install dir
    node_dir,    \* upgrade test: version of the node's install dir
    config,      \* upgrade test: keys of cluster._config_options
    session,     \* upgrade test: "none", "open" or "shutdown"
    jmx,         \* upgrade test: a JolokiaAgent is open
    avg_interval,\* upgrade test: the last AverageIndexInterval read
    events,      \* upgrade test: cluster-management calls since the last connect
    original_install_dir, \* upgrade test: the local variable of that name
    env          \* upgrade test: OFFHEAP_MEMTABLES, the install dir and the
                 \* configuration the test starts with, the node's answers

sessionVars == <<db, calls, nasserts, last>>
upgradeVars == <<pc, node_status, drained, cluster_dir, node_dir, config,
                 session, jmx, avg_interval, events, original_install_dir, env>>
vars == <<db, calls, nasserts, last, pc, node_status, drained, cluster_dir,
          node_dir, config, session, jmx, avg_interval, events,
          original_install_dir, env>>

----------------------------------------------------------------------------
(* Bounds of the model. *)

MaxRows == 2      \* rows in a table or an expected list (session)
MaxSort == 3      \* rows in a table or an expected list (assert_all alone)
MaxCalls == 2     \* assertions per session
MaxVal == 11      \* largest number given to assert_almost_equal
MaxArgs == 2      \* how many numbers are given to assert_almost_equal
MaxLen == 2       \* longest collection given to assert_length_equal

----------------------------------------------------------------------------
(* Python values. *)

None == <<>>
Some(x) == <<x>>
IsNone(o) == Len(o) = 0
Get(o) == o[1]

Range(s) == {s[i] : i \in DOMAIN s}

SeqsUpTo(S, n) == UNION {[1..k -> S] : k \in 0..n}

Min(S) == CHOOSE x \in S : \A y \in S : x <= y
Max(S) == CHOOSE x \in S : \A y \in S : x >= y

(* A comparison by the first element alone, as a sort keyed on the         *)
(* partition key would make.                                                *)
KeyLess(a, b) == a[1] < b[1]

(* Python's < on two lists of numbers: the first differing element decides, *)
(* and a proper prefix is smaller.                                          *)
RECURSIVE ListLess(_, _)
ListLess(a, b) ==
    IF Len(b) = 0 THEN FALSE
    ELSE IF Len(a) = 0 THEN TRUE
    ELSE IF a[1] # b[1] THEN a[1] < b[1]
    ELSE ListLess(Tail(a), Tail(b))

(* sorted(): a stable sort into ascending order. *)
RECURSIVE Insert(_, _)
Insert(x, s) ==
    IF Len(s) = 0 THEN <<x>>
    ELSE IF ListLess(x, s[1]) THEN <<x>> \o s
    ELSE <<s[1]>> \o Insert(x, Tail(s))

RECURSIVE sorted(_)
sorted(s) ==
    IF Len(s) = 0 THEN <<>>
    ELSE Insert(s[Len(s)], sorted(SubSeq(s, 1, Len(s) - 1)))

(* re.match: the pattern occurs at the start of text. *)
MatchAtStart(pattern, text) ==
    Len(pattern) <= Len(text) /\ SubSeq(text, 1, Len(pattern)) = pattern

(* re.search of a literal pattern: the pattern occurs somewhere in text. *)
Search(pattern, text) ==
    \E i \in 1..(Len(text) + 1) :
        /\ i + Len(pattern) - 1 <= Len(text)
        /\ SubSeq(text, i, i + Len(pattern) - 1) = pattern

----------------------------------------------------------------------------
(* The system under test, as the helpers see it through session.execute.   *)

Row == {<<1, 1>>, <<1, 2>>, <<2, 1>>}          \* rows (k, v) of table test
RowLists(n) == SeqsUpTo(Row, n)

Keyspaces == {"ks", "ks2"}
SchemaSources == {"system_schema.tables", "system_schema.views"}
SchemaKeys == SchemaSources \X Keyspaces
CrcValues == {25, 50}                           \* crc_check_chance, in percent
SchemaTable == "t"                              \* the one table or view present
DefaultSchema == [k \in SchemaKeys |-> 50]

DomainErrors == {"InvalidRequest", "Unauthorized", "Unavailable", "WriteTimeout",
                 "WriteFailure", "ReadTimeout", "ReadFailure",
                 "OperationTimedOut"}
Messages == {<<"a", "b">>, <<"b", "c">>}        \* str(e) of a domain error
Error(category, msg) == [category |-> category, msg |-> msg]

(* A healthy system answers queries; a failing one (nodes down, timeouts)  *)
(* raises db.fail on every request.  altered: table test has been given    *)
(* the column that the ALTER TABLE statement of the model adds.            *)
HealthyDB(rows, schema) ==
    [rows |-> rows, schema |-> schema, fail |-> None, altered |-> FALSE]
FailingDB(err) ==
    [rows |-> <<>>, schema |-> DefaultSchema, fail |-> Some(err), altered |-> FALSE]

DBs(n) ==
    {HealthyDB(r, DefaultSchema) : r \in RowLists(n)}
    \cup {HealthyDB(<<>>, s) : s \in [SchemaKeys -> CrcValues]}
    \cup {FailingDB(Error(c, m)) : c \in DomainErrors, m \in Messages}

(* Queries.  where is None or Some("v > 1"), the one filter of the model. *)
(* src is what the query reads from, ks and name the keyspace_name and the *)
(* table_name or view_name a schema query asks for.                        *)
Query(op, src, ks, name, where) ==
    [op |-> op, src |-> src, ks |-> ks, name |-> name, where |-> where]
SelectAll == Query("select", "test", "", "", None)
Malformed == Query("malformed", "test", "", "", None)
Restricted == Query("restricted", "test", "", "", None)
Alter == Query("alter", "test", "", "", None)
UserQueries == {SelectAll, Malformed, Restricted, Alter}

(* The driver's result rows are Row objects, not lists. *)
RawRow(values) == [values |-> values, fields |-> Len(values)]
RawRows(lists) == [i \in DOMAIN lists |-> RawRow(lists[i])]

Returned(rows) == [rows |-> rows, err |-> Error("", <<>>), raised |-> FALSE]
Raises(err) == [rows |-> <<>>, err |-> err, raised |-> TRUE]

Matching(rows, where) ==
    IF IsNone(where) THEN DOMAIN rows ELSE {i \in DOMAIN rows : rows[i][2] > 1}

(* session.execute(statement): what the system answers.  statement is a    *)
(* record [query, cl]; a plain query string is a statement whose cl is     *)
(* None.                                                                    *)
execute(d, statement) ==
    LET q == statement.query IN
    IF ~IsNone(d.fail) THEN Raises(Get(d.fail))
    ELSE CASE q.op = "select" -> Returned(RawRows(d.rows))
           [] q.op = "count" ->
                Returned(<<RawRow(<<Cardinality(Matching(d.rows, q.where))>>)>>)
           [] q.op = "crc" ->
                IF q.name = SchemaTable /\ <<q.src, q.ks>> \in SchemaKeys
                THEN Returned(<<RawRow(<<d.schema[<<q.src, q.ks>>]>>)>>)
                ELSE Returned(<<>>)
           [] q.op = "malformed" -> Raises(Error("InvalidRequest", <<"a", "b">>))
           [] q.op = "alter" ->
                IF d.altered THEN Raises(Error("InvalidRequest", <<"a", "b">>))
                ELSE Returned(<<>>)
           [] OTHER -> Raises(Error("Unauthorized", <<"b", "c">>))

(* The system after session.execute(statement): a statement that raised    *)
(* changed nothing, a read changes nothing, ALTER TABLE adds its column.   *)
Effect(d, statement) ==
    IF ~execute(d, statement).raised /\ statement.query.op = "alter"
    THEN [d EXCEPT !.altered = TRUE]
    ELSE d

SimpleStatement(query, cl) == [query |-> query, cl |-> cl]

(* tools.rows_to_list: [list(row) for row in rows]. *)
rows_to_list(rows) == [i \in DOMAIN rows |-> rows[i].values]

(* Python arguments of a call: None, a query string, a SimpleStatement or  *)
(* the session object.  A query string reaches the system as a statement   *)
(* without a consistency level.                                             *)
PyNone == [py |-> "NoneType", value |-> <<>>]
PyStr(query) == [py |-> "str", value |-> <<SimpleStatement(query, None)>>]
PyStatement(statement) == [py |-> "SimpleStatement", value |-> <<statement>>]
PySession == [py |-> "Session", value |-> <<>>]

(* A callable: session.execute itself; the one-argument lambda of the      *)
(* docstring, lambda c: debug(c.execute(statement)), which executes its    *)
(* statement on the object it is given; or a one-argument lambda that      *)
(* executes its statement on the session of its closure and ignores what   *)
(* it is given, lambda _: debug(session.execute(statement)).               *)
SessionExecute == [kind |-> "session.execute", bound |-> None]
Lambda(query) == [kind |-> "lambda", bound |-> Some(SimpleStatement(query, None))]
LambdaIgnoringArg(query) ==
    [kind |-> "lambda _", bound |-> Some(SimpleStatement(query, None))]

(* Only the session has an execute attribute: c.execute on any other       *)
(* object raises AttributeError before anything reaches the system.        *)
HasExecute(arg) == arg.py = "Session"

(* Calling fun with args: the call, the statement that reached the system  *)
(* (None when fun raised before executing one), and what fun returned or   *)
(* raised.                                                                  *)
Invoke(d, fun, args) ==
    LET statement == IF fun.kind = "session.execute" THEN args[1].value
                     ELSE IF fun.kind = "lambda" /\ ~HasExecute(args[1]) THEN None
                     ELSE fun.bound
    IN [call |-> [statement |-> statement, fun |-> fun, args |-> args],
        res |-> IF IsNone(statement) THEN Raises(Error("AttributeError", <<>>))
                ELSE execute(d, Get(statement))]

(* The statements reaching the system among the calls of one assertion. *)
Reached(sent) == SelectSeq(sent, LAMBDA c : ~IsNone(c.statement))

(* The system after the calls of one assertion, in their order. *)
RECURSIVE After(_, _)
After(d, sent) ==
    IF Len(sent) = 0 THEN d
    ELSE After(IF IsNone(sent[1].statement) THEN d
               ELSE Effect(d, Get(sent[1].statement)),
               Tail(sent))

----------------------------------------------------------------------------
(* How an assertion ends, and str.format. *)

Pass == [msg |-> <<>>, err |-> Error("", <<>>), kind |-> "pass"]
AssertionFailure(msg) == [msg |-> msg, err |-> Error("", <<>>), kind |-> "AssertionError"]
Raised(err) == [msg |-> <<>>, err |-> err, kind |-> "raised"]

(* A format string is its sequence of pieces: literal text, "{}" (the next *)
(* positional argument) or "{.name}" (attribute name of the next           *)
(* positional argument).  The arguments are named by what they hold; the   *)
(* result is the text with each "{}" replaced by its argument, or the      *)
(* error the lookup raised.  No argument of these helpers has an attribute *)
(* called 2f.                                                               *)
IsField(piece) == piece = "{}" \/ piece = "{.2f}"
FieldIndex(template, i) == Cardinality({j \in 1..i : IsField(template[j])})
Format(template, args) ==
    IF \E i \in DOMAIN template : template[i] = "{.2f}"
    THEN [text |-> <<>>, err |-> Error("AttributeError", <<>>), ok |-> FALSE]
    ELSE IF FieldIndex(template, Len(template)) > Len(args)
    THEN [text |-> <<>>, err |-> Error("IndexError", <<>>), ok |-> FALSE]
    ELSE [text |-> [i \in DOMAIN template |->
                      IF IsField(template[i]) THEN args[FieldIndex(template, i)]
                      ELSE template[i]],
          err |-> Error("", <<>>),
          ok |-> TRUE]

(* assert cond, message: the message is built only when cond is false. *)
assert_stmt(cond, message) ==
    IF cond THEN Pass
    ELSE IF message.ok THEN AssertionFailure(message.text)
    ELSE Raised(message.err)

(* What one invocation of a helper did: the calls it made, in order,       *)
(* and how it ended.                                                        *)
Run(sent, outcome) == [sent |-> sent, outcome |-> outcome]

----------------------------------------------------------------------------
(* The helpers of assertions.py.  Each takes the system d and the helper's *)
(* arguments and gives the Run of one invocation.                           *)

(* nose.tools.assert_regexp_matches(text, expected_regexp). *)
assert_regexp_matches(text, expected_regexp) ==
    IF Search(expected_regexp, text) THEN Pass
    ELSE AssertionFailure(<<"Regexp didn't match: ", "expected_regexp",
                            " not found in ", "text">>)

(* bool(msg) of a collection: an empty one is false. *)
Truthy(msg) == Len(msg) > 0

(* nose.tools.assert_equal(first, second, msg), msg a collection: with     *)
(* longMessage (the default of Python 3's unittest) msg is appended to the *)
(* standard message; without it (the default of Python 2.7's) the message  *)
(* is msg or standardMsg, so msg replaces the standard message unless it   *)
(* is empty.                                                                *)
assert_equal(first, second, msg, longMessage) ==
    IF first = second THEN Pass
    ELSE IF longMessage
         THEN AssertionFailure(<<"first", " != ", "second", " : ", "msg">>)
         ELSE IF Truthy(msg) THEN AssertionFailure(<<"msg">>)
         ELSE AssertionFailure(<<"first", " != ", "second">>)

(* _assert_exception with a handler that reports an unexpected error as an *)
(* assertion failure instead of raising it again.                          *)
_assert_exception_swallowing(d, fun, args, matching, expected) ==
    LET inv == IF Len(args) = 0 THEN Invoke(d, fun, <<PyNone>>)
               ELSE Invoke(d, fun, args)
    IN IF inv.res.raised
       THEN IF inv.res.err.category \in expected
            THEN IF ~IsNone(matching)
                 THEN Run(<<inv.call>>,
                          assert_regexp_matches(inv.res.err.msg, Get(matching)))
                 ELSE Run(<<inv.call>>, Pass)
            ELSE Run(<<inv.call>>, AssertionFailure(<<"Unexpected exception">>))
       ELSE Run(<<inv.call>>,
                AssertionFailure(<<"Expecting query to raise an exception, but nothing was raised.">>))

(* _assert_exception that calls fun a second time when the first call      *)
(* raised an error it did not expect.                                       *)
_assert_exception_retrying(d, fun, args, matching, expected) ==
    LET inv == IF Len(args) = 0 THEN Invoke(d, fun, <<PyNone>>)
               ELSE Invoke(d, fun, args)
    IN IF inv.res.raised
       THEN IF inv.res.err.category \in expected
            THEN IF ~IsNone(matching)
                 THEN Run(<<inv.call>>,
                          assert_regexp_matches(inv.res.err.msg, Get(matching)))
                 ELSE Run(<<inv.call>>, Pass)
            ELSE Run(<<inv.call, inv.call>>, Raised(inv.res.err))
       ELSE Run(<<inv.call>>,
                AssertionFailure(<<"Expecting query to raise an exception, but nothing was raised.">>))

_assert_exception(d, fun, args, matching, expected) ==
    LET inv == IF Len(args) = 0 THEN Invoke(d, fun, <<PyNone>>)
               ELSE Invoke(d, fun, args)
    IN IF inv.res.raised
       THEN IF inv.res.err.category \in expected
            THEN IF ~IsNone(matching)
                 THEN Run(<<inv.call>>,
                          assert_regexp_matches(inv.res.err.msg, Get(matching)))
                 ELSE Run(<<inv.call>>, Pass)
            ELSE Run(<<inv.call>>, Raised(inv.res.err))
       ELSE Run(<<inv.call>>,
                AssertionFailure(<<"Expecting query to raise an exception, but nothing was raised.">>))

(* expected is None or Some(the set of expected exception classes). *)
assert_exception(d, query, matching, expected) ==
    IF IsNone(expected)
    THEN Run(<<>>, AssertionFailure(<<"Expected exception should not be None. Your test code is wrong, please set expected.">>))
    ELSE _assert_exception(d, SessionExecute, <<PyStr(query)>>, matching, Get(expected))

(* The expected classes of assert_unavailable without ReadFailure. *)
UnavailableErrorsShort == {"Unavailable", "WriteTimeout", "WriteFailure", "ReadTimeout"}

UnavailableErrors == {"Unavailable", "WriteTimeout", "WriteFailure",
                      "ReadTimeout", "ReadFailure"}

assert_unavailable(d, fun, args) ==
    _assert_exception(d, fun, args, None, UnavailableErrors)

assert_invalid(d, query, matching, expected) ==
    assert_exception(d, query, matching, expected)

assert_unauthorized(d, query, message) ==
    assert_exception(d, query, Some(message), Some({"Unauthorized"}))

(* assert_one that looks at the first row only. *)
assert_one_first_row(d, query, expected, cl) ==
    LET simple_query == SimpleStatement(query, cl)
        inv == Invoke(d, SessionExecute, <<PyStatement(simple_query)>>)
        list_res == rows_to_list(inv.res.rows)
    IN IF inv.res.raised THEN Run(<<inv.call>>, Raised(inv.res.err))
       ELSE Run(<<inv.call>>,
                assert_stmt(Len(list_res) > 0 /\ list_res[1] = expected,
                            Format(<<"Expected ", "{}", " from ", "{}", ", but got ", "{}">>,
                                   <<"[expected]", "query", "list_res">>)))

assert_one(d, query, expected, cl) ==
    LET simple_query == SimpleStatement(query, cl)
        inv == Invoke(d, SessionExecute, <<PyStatement(simple_query)>>)
        list_res == rows_to_list(inv.res.rows)
    IN IF inv.res.raised THEN Run(<<inv.call>>, Raised(inv.res.err))
       ELSE Run(<<inv.call>>,
                assert_stmt(list_res = <<expected>>,
                            Format(<<"Expected ", "{}", " from ", "{}", ", but got ", "{}">>,
                                   <<"[expected]", "query", "list_res">>)))

assert_none(d, query, cl) ==
    LET simple_query == SimpleStatement(query, cl)
        inv == Invoke(d, SessionExecute, <<PyStatement(simple_query)>>)
        list_res == rows_to_list(inv.res.rows)
    IN IF inv.res.raised THEN Run(<<inv.call>>, Raised(inv.res.err))
       ELSE Run(<<inv.call>>,
                assert_stmt(list_res = <<>>,
                            Format(<<"Expected nothing from ", "{}", ", but got ", "{}">>,
                                   <<"query", "list_res">>)))

assert_all(d, query, expected, cl, ignore_order) ==
    LET simple_query == SimpleStatement(query, cl)
        inv == Invoke(d, SessionExecute, <<PyStatement(simple_query)>>)
        list_res == rows_to_list(inv.res.rows)
        expected2 == IF ignore_order THEN sorted(expected) ELSE expected
        list_res2 == IF ignore_order THEN sorted(list_res) ELSE list_res
    IN IF inv.res.raised THEN Run(<<inv.call>>, Raised(inv.res.err))
       ELSE Run(<<inv.call>>,
                assert_stmt(list_res2 = expected2,
                            Format(<<"Expected ", "{}", " from ", "{}", ", but got ", "{}">>,
                                   <<"expected", "query", "list_res">>)))

(* assert_almost_equal with >= in place of >. *)
assert_almost_equal_inclusive(args, error, error_message) ==
    LET pct == IF ~IsNone(error) THEN Get(error) ELSE 16
        vmax == Max(Range(args))
        vmin == Min(Range(args))
    IN Run(<<>>,
           assert_stmt(100 * vmin >= vmax * (100 - pct) \/ vmin = vmax,
                       Format(<<"values not within ", "{.2f}", "% of the max: ", "{}",
                                " (", "{}", ")">>,
                              <<"error * 100", "args", "error_message">>)))

(* The margin is an integer percentage: error = pct / 100.  The test        *)
(* vmin > vmax * (1.0 - error) is taken over the rationals, which is what   *)
(* the floating-point expression gives for the numbers and margins of this  *)
(* model.  error is None (not given, 0.16) or Some(pct).                    *)
DefaultErrorPct == 16
assert_almost_equal(args, error, error_message) ==
    LET pct == IF ~IsNone(error) THEN Get(error) ELSE DefaultErrorPct
        vmax == Max(Range(args))
        vmin == Min(Range(args))
    IN Run(<<>>,
           assert_stmt(100 * vmin > vmax * (100 - pct) \/ vmin = vmax,
                       Format(<<"values not within ", "{.2f}", "% of the max: ", "{}",
                                " (", "{}", ")">>,
                              <<"error * 100", "args", "error_message">>)))

CountQuery(table_name, where) == Query("count", table_name, "", "", where)

assert_row_count(d, table_name, expected, where) ==
    LET query == CountQuery(table_name, where)
        inv == Invoke(d, SessionExecute, <<PyStr(query)>>)
        count == inv.res.rows[1].values[1]
    IN IF inv.res.raised THEN Run(<<inv.call>>, Raised(inv.res.err))
       ELSE Run(<<inv.call>>,
                assert_stmt(count = expected,
                            Format(<<"Expected a row count of ", "{}", " in table '", "{}",
                                     "', but got ", "{}">>,
                                   <<"expected", "table_name", "count">>)))

(* The query assert_crc_check_chance_equal builds.  The keyspace_name in    *)
(* the query text is the literal 'ks'; only the table is formatted in.      *)
CrcQuery(table, ks, view) ==
    IF view THEN Query("crc", "system_schema.views", "ks", table, None)
    ELSE Query("crc", "system_schema.tables", "ks", table, None)

assert_crc_check_chance_equal(d, table, expected, ks, view) ==
    assert_one(d, CrcQuery(table, ks, view), <<expected>>, None)

assert_length_equal(object_with_length, expected_length, longMessage) ==
    Run(<<>>, assert_equal(Len(object_with_length), expected_length,
                           object_with_length, longMessage))

----------------------------------------------------------------------------
(* The test session: a test invokes the helpers one after the other.       *)

Patterns == {<<"b">>, <<"a", "b">>, <<"b", "c">>}
Matchings == {None} \cup {Some(p) : p \in Patterns}
ExpectedSets == {None, Some({"InvalidRequest"}), Some({"Unavailable"}),
                 Some(UnavailableErrors)}
ConsistencyLevels == {None, Some("ALL")}
TableNames == {"test"}
Wheres == {None, Some("v > 1")}
Tables == {SchemaTable, "u"}
Callables == {<<SessionExecute, <<PyStr(q)>>>> : q \in UserQueries}
             \cup {<<Lambda(q), <<>>>> : q \in UserQueries}
             \cup {<<Lambda(q), <<PySession>>>> : q \in UserQueries}
             \cup {<<LambdaIgnoringArg(q), <<>>>> : q \in UserQueries}
Numbers == 0..MaxVal
NumberLists == UNION {[1..k -> Numbers] : k \in 1..MaxArgs}
SessionNumberLists == {<<5, 5>>, <<4, 5>>, <<5, 10>>, <<10, 11>>}
ErrorPcts == {None, Some(0), Some(20)}
Collections == SeqsUpTo({"x"}, MaxLen)

(* last: the helper invoked last and its arguments, the calls it made, how *)
(* it ended, the system it ran against (on), and how many times in a row   *)
(* this same assertion has now been invoked (times).                       *)
NoAssertion ==
    [args |-> <<>>, sent |-> <<>>, outcome |-> Pass, helper |-> "none",
     on |-> HealthyDB(<<>>, DefaultSchema), times |-> 0]

(* One invocation of a helper: the statements it executed reach the system *)
(* in order and leave it as the system answers them, each logged with the  *)
(* number of the assertion that made it.                                    *)
Invoked(helper, args, run) ==
    /\ nasserts < MaxCalls
    /\ nasserts' = nasserts + 1
    /\ calls' = calls \o [i \in 1..Len(Reached(run.sent)) |-> nasserts + 1]
    /\ db' = After(db, run.sent)
    /\ last' = [args |-> args, sent |-> run.sent, outcome |-> run.outcome,
                helper |-> helper, on |-> db,
                times |-> IF helper = last.helper /\ args = last.args
                          THEN last.times + 1 ELSE 1]
    /\ UNCHANGED upgradeVars

(* An exception that leaves a helper ends the test unless the test catches *)
(* it: the next assertion of the test is made after the last one returned. *)
Assertion(helper, args, run) ==
    /\ last.outcome.kind = "pass"
    /\ Invoked(helper, args, run)

AssertException ==
    \E query \in UserQueries, matching \in Matchings, expected \in ExpectedSets :
        Assertion("assert_exception",
                  [query |-> query, matching |-> matching, expected |-> expected],
                  assert_exception(db, query, matching, expected))

AssertUnavailable ==
    \E c \in Callables :
        Assertion("assert_unavailable", [fun |-> c[1], args |-> c[2]],
                  assert_unavailable(db, c[1], c[2]))

(* expected defaults to InvalidRequest. *)
AssertInvalid ==
    \E query \in UserQueries, matching \in Matchings,
       expected \in {None, Some({"InvalidRequest"}), Some({"Unavailable"})} :
        Assertion("assert_invalid",
                  [query |-> query, matching |-> matching, expected |-> expected],
                  assert_invalid(db, query, matching, expected))

AssertUnauthorized ==
    \E query \in UserQueries, message \in Patterns :
        Assertion("assert_unauthorized", [query |-> query, message |-> message],
                  assert_unauthorized(db, query, message))

AssertOne ==
    \E query \in UserQueries, expected \in Row, cl \in ConsistencyLevels :
        Assertion("assert_one", [query |-> query, cl |-> cl, expected |-> expected],
                  assert_one(db, query, expected, cl))

AssertNone ==
    \E query \in UserQueries, cl \in ConsistencyLevels :
        Assertion("assert_none", [query |-> query, cl |-> cl],
                  assert_none(db, query, cl))

AssertAll(queries, expecteds) ==
    \E query \in queries, expected \in expecteds, cl \in ConsistencyLevels,
       ignore_order \in BOOLEAN :
        Assertion("assert_all",
                  [query |-> query, cl |-> cl, expected |-> expected,
                   ignore_order |-> ignore_order],
                  assert_all(db, query, expected, cl, ignore_order))

AssertAlmostEqual(lists) ==
    \E args \in lists, error \in ErrorPcts :
        Assertion("assert_almost_equal", [args |-> args, error |-> error],
                  assert_almost_equal(args, error, ""))

AssertRowCount ==
    \E table_name \in TableNames, expected \in 0..MaxRows, where \in Wheres :
        Assertion("assert_row_count",
                  [where |-> where, expected |-> expected, table_name |-> table_name],
                  assert_row_count(db, table_name, expected, where))

AssertCrcCheckChanceEqual ==
    \E table \in Tables, expected \in CrcValues, ks \in Keyspaces, view \in BOOLEAN :
        Assertion("assert_crc_check_chance_equal",
                  [ks |-> ks, expected |-> expected, table |-> table, view |-> view],
                  assert_crc_check_chance_equal(db, table, expected, ks, view))

AssertLengthEqual ==
    \E object_with_length \in Collections, expected_length \in 0..MaxLen,
       longMessage \in BOOLEAN :
        Assertion("assert_length_equal",
                  [longMessage |-> longMessage, object_with_length |-> object_with_length,
                   expected_length |-> expected_length],
                  assert_length_equal(object_with_length, expected_length, longMessage))

(* The helper named helper, called with the arguments of the record args. *)
Invocation(d, helper, args) ==
    CASE helper = "assert_exception" ->
            assert_exception(d, args.query, args.matching, args.expected)
      [] helper = "assert_unavailable" -> assert_unavailable(d, args.fun, args.args)
      [] helper = "assert_invalid" ->
            assert_invalid(d, args.query, args.matching, args.expected)
      [] helper = "assert_unauthorized" ->
            assert_unauthorized(d, args.query, args.message)
      [] helper = "assert_one" -> assert_one(d, args.query, args.expected, args.cl)
      [] helper = "assert_none" -> assert_none(d, args.query, args.cl)
      [] helper = "assert_all" ->
            assert_all(d, args.query, args.expected, args.cl, args.ignore_order)
      [] helper = "assert_almost_equal" -> assert_almost_equal(args.args, args.error, "")
      [] helper = "assert_row_count" ->
            assert_row_count(d, args.table_name, args.expected, args.where)
      [] helper = "assert_crc_check_chance_equal" ->
            assert_crc_check_chance_equal(d, args.table, args.expected, args.ks, args.view)
      [] helper = "assert_length_equal" ->
            assert_length_equal(args.object_with_length, args.expected_length,
                                args.longMessage)

(* The test caught the AssertionError or the exception of its last         *)
(* assertion and makes the same assertion again, with the same arguments,  *)
(* against the system as that assertion left it.                           *)
Repeat ==
    /\ last.helper # "none"
    /\ last.outcome.kind # "pass"
    /\ Invoked(last.helper, last.args, Invocation(db, last.helper, last.args))

----------------------------------------------------------------------------
(* test_upgrade_index_summary: the script, one action per statement.  pc    *)
(* is the line of the next statement.                                       *)

(* Version strings, as sequences of character codes: Python compares        *)
(* strings code point by code point, as ListLess does.                      *)
Dot == 46
Digit(n) == 48 + n
V2_0_12 == <<Digit(2), Dot, Digit(0), Dot, Digit(1), Digit(2)>>
V2_1_3 == <<Digit(2), Dot, Digit(1), Dot, Digit(3)>>
V2_1_13 == <<Digit(2), Dot, Digit(1), Dot, Digit(1), Digit(3)>>
V2_2_5 == <<Digit(2), Dot, Digit(2), Dot, Digit(5)>>
V3_0_3 == <<Digit(3), Dot, Digit(0), Dot, Digit(3)>>
V3_4 == <<Digit(3), Dot, Digit(4)>>
V3_0 == <<Digit(3), Dot, Digit(0)>>
StrLeq(a, b) == a = b \/ ListLess(a, b)
StrLess(a, b) == ListLess(a, b)

(* The install dir the test is run with is a 2.1+ version (line 83). *)
OriginalVersions == {V2_1_13, V2_2_5, V3_0_3, V3_4}
MemtableOption == "memtable_allocation_type"
Intervals == {128, 256}          \* AverageIndexInterval the node may report

Step(from, to) == pc = from /\ pc' = to
Event(e) == events' = Append(events, e)

ClusterPopulate ==
    /\ Step("L18", "L20")
    /\ node_status' = "UNINITIALIZED"
    /\ UNCHANGED <<drained, cluster_dir, node_dir, config, session, jmx,
                   avg_interval, events, original_install_dir, env, sessionVars>>

GetInstallDir ==
    /\ Step("L20", "L23")
    /\ original_install_dir' = node_dir
    /\ UNCHANGED <<node_status, drained, cluster_dir, node_dir, config, session,
                   jmx, avg_interval, events, env, sessionVars>>

ClusterSetInstallDir(from, to, version) ==
    /\ Step(from, to)
    /\ cluster_dir' = version
    /\ Event("cluster.set_install_dir")
    /\ UNCHANGED <<node_status, drained, node_dir, config, session, jmx,
                   avg_interval, original_install_dir, env, sessionVars>>

NodeSetInstallDir(from, to, version) ==
    /\ Step(from, to)
    /\ node_dir' = version
    /\ Event("node.set_install_dir")
    /\ UNCHANGED <<node_status, drained, cluster_dir, config, session, jmx,
                   avg_interval, original_install_dir, env, sessionVars>>

(* Lines 24-26: the 2.0 configuration has no memtable_allocation_type. *)
RemoveOptionFor20 ==
    /\ Step("L24", "L27")
    /\ config' = IF MemtableOption \in config THEN config \ {MemtableOption}
                 ELSE config
    /\ UNCHANGED <<node_status, drained, cluster_dir, node_dir, session, jmx,
                   avg_interval, events, original_install_dir, env, sessionVars>>

(* Lines 54-56. *)
AddOptionFor21 ==
    /\ Step("L54", "L57")
    /\ config' = IF env.offheap THEN config \cup {MemtableOption} ELSE config
    /\ UNCHANGED <<node_status, drained, cluster_dir, node_dir, session, jmx,
                   avg_interval, events, original_install_dir, env, sessionVars>>

(* Lines 89-93: cluster.version() is the version of the cluster's install   *)
(* dir; deleting a key that is not there raises KeyError.                   *)
RemoveOptionFor30 ==
    /\ pc = "L89"
    /\ IF env.offheap /\ StrLeq(V3_0, cluster_dir) /\ StrLess(cluster_dir, V3_4)
       THEN IF MemtableOption \in config
            THEN pc' = "L94" /\ config' = config \ {MemtableOption}
            ELSE pc' = "error" /\ config' = config
       ELSE pc' = "L94" /\ config' = config
    /\ UNCHANGED <<node_status, drained, cluster_dir, node_dir, session, jmx,
                   avg_interval, events, original_install_dir, env, sessionVars>>

(* set_log_level, remove_perf_disable_shared_mem: files of the node. *)
Configure(from, to) ==
    /\ Step(from, to)
    /\ UNCHANGED <<node_status, drained, cluster_dir, node_dir, config, session,
                   jmx, avg_interval, events, original_install_dir, env, sessionVars>>

(* node.stop() left out of the script. *)
NodeStopSkipped(from, to) ==
    /\ Step(from, to)
    /\ Event("stop")
    /\ UNCHANGED <<node_status, drained, cluster_dir, node_dir, config, session, jmx,
                   avg_interval, original_install_dir, env, sessionVars>>

NodeStop(from, to) ==
    /\ Step(from, to)
    /\ node_status' = IF node_status = "UP" THEN "DOWN" ELSE node_status
    /\ Event("stop")
    /\ UNCHANGED <<drained, cluster_dir, node_dir, config, session, jmx,
                   avg_interval, original_install_dir, env, sessionVars>>

(* cluster.start() and node.start(). *)
NodeStart(from, to) ==
    /\ Step(from, to)
    /\ node_status' = "UP"
    /\ drained' = FALSE
    /\ Event("start")
    /\ UNCHANGED <<cluster_dir, node_dir, config, session, jmx, avg_interval,
                   original_install_dir, env, sessionVars>>

(* patient_cql_connection: a new client session on the running node. *)
Connect(from, to) ==
    /\ pc = from
    /\ pc' = IF node_status = "UP" THEN to ELSE "error"
    /\ session' = IF node_status = "UP" THEN "open" ELSE session
    /\ events' = <<>>
    /\ UNCHANGED <<node_status, drained, cluster_dir, node_dir, config, jmx,
                   avg_interval, original_install_dir, env, sessionVars>>

(* Lines 41-46: keyspace, table and 128 * 128 partitions. *)
LoadData ==
    /\ pc = "L41"
    /\ pc' = IF session = "open" /\ node_status = "UP" THEN "L49" ELSE "error"
    /\ UNCHANGED <<node_status, drained, cluster_dir, node_dir, config, session,
                   jmx, avg_interval, events, original_install_dir, env, sessionVars>>

SessionShutdown(from, to) ==
    /\ Step(from, to)
    /\ session' = "shutdown"
    /\ Event("shutdown")
    /\ UNCHANGED <<node_status, drained, cluster_dir, node_dir, config, jmx,
                   avg_interval, original_install_dir, env, sessionVars>>

NodeDrain(from, to) ==
    /\ pc = from
    /\ pc' = IF node_status = "UP" THEN to ELSE "error"
    /\ drained' = (node_status = "UP")
    /\ Event("drain")
    /\ UNCHANGED <<node_status, cluster_dir, node_dir, config, session, jmx,
                   avg_interval, original_install_dir, env, sessionVars>>

(* watch_log_for("DRAINED") returns once the line is in the log and times   *)
(* out when it never comes.                                                 *)
WatchLogForDrained(from, to) ==
    /\ pc = from
    /\ pc' = IF drained THEN to ELSE "error"
    /\ events' = IF drained THEN Append(events, "DRAINED") ELSE events
    /\ UNCHANGED <<node_status, drained, cluster_dir, node_dir, config, session,
                   jmx, avg_interval, original_install_dir, env, sessionVars>>

(* Line 105: whether the node logs the line is the node's business. *)
WatchLogForDetected ==
    /\ pc = "L105"
    /\ pc' \in {"L107", "error"}
    /\ UNCHANGED <<node_status, drained, cluster_dir, node_dir, config, session,
                   jmx, avg_interval, events, original_install_dir, env, sessionVars>>

(* with JolokiaAgent(node) as jmx. *)
JmxEnter(from, to) ==
    /\ Step(from, to)
    /\ jmx' = TRUE
    /\ UNCHANGED <<node_status, drained, cluster_dir, node_dir, config, session,
                   avg_interval, events, original_install_dir, env, sessionVars>>

JmxRead(from, to) ==
    /\ Step(from, to)
    /\ avg_interval' \in Intervals
    /\ Event("jmx.read_attribute")
    /\ UNCHANGED <<node_status, drained, cluster_dir, node_dir, config, session,
                   jmx, original_install_dir, env, sessionVars>>

(* write_attribute and execute_method. *)
JmxWrite(from, to, what) ==
    /\ Step(from, to)
    /\ Event(what)
    /\ UNCHANGED <<node_status, drained, cluster_dir, node_dir, config, session,
                   jmx, avg_interval, original_install_dir, env, sessionVars>>

(* assertEqual(128.0, avg_interval) inside the with block: a failure leaves *)
(* the block, which stops the agent, and ends the test.                     *)
AssertIntervalEqual(from, to) ==
    /\ pc = from
    /\ pc' = IF avg_interval = 128 THEN to ELSE "failed"
    /\ jmx' = IF avg_interval = 128 THEN jmx ELSE FALSE
    /\ UNCHANGED <<node_status, drained, cluster_dir, node_dir, config, session,
                   avg_interval, events, original_install_dir, env, sessionVars>>

(* Line 81, the last statement of the first with block. *)
AssertIntervalGreater ==
    /\ pc = "L81"
    /\ pc' = IF avg_interval > 128 THEN "L84" ELSE "failed"
    /\ jmx' = FALSE
    /\ UNCHANGED <<node_status, drained, cluster_dir, node_dir, config, session,
                   avg_interval, events, original_install_dir, env, sessionVars>>

(* Line 121, the last statement of the test. *)
AssertIntervalRestored ==
    /\ pc = "L121"
    /\ pc' = IF avg_interval = 128 THEN "done" ELSE "failed"
    /\ jmx' = FALSE
    /\ UNCHANGED <<node_status, drained, cluster_dir, node_dir, config, session,
                   avg_interval, events, original_install_dir, env, sessionVars>>

UpgradeIdle ==
    /\ pc = "idle" /\ node_status = "UNINITIALIZED" /\ drained = FALSE
    /\ cluster_dir = <<>> /\ node_dir = <<>> /\ config = {}
    /\ session = "none" /\ jmx = FALSE /\ avg_interval = 0 /\ events = <<>>
    /\ original_install_dir = <<>>
    /\ env = [offheap |-> FALSE, original |-> <<>>, had_option |-> FALSE]

SessionIdle ==
    /\ db = HealthyDB(<<>>, DefaultSchema)
    /\ calls = <<>> /\ nasserts = 0 /\ last = NoAssertion

InitUpgrade ==
    /\ SessionIdle
    /\ env \in [offheap : BOOLEAN, original : OriginalVersions, had_option : BOOLEAN]
    /\ pc = "L18" /\ node_status = "UNINITIALIZED" /\ drained = FALSE
    /\ cluster_dir = env.original /\ node_dir = env.original
    /\ config = IF env.had_option THEN {MemtableOption} ELSE {}
    /\ session = "none" /\ jmx = FALSE /\ avg_interval = 0 /\ events = <<>>
    /\ original_install_dir = <<>>

NextUpgrade ==
    \/ ClusterPopulate
    \/ GetInstallDir
    \/ ClusterSetInstallDir("L23", "L24", V2_0_12)
    \/ RemoveOptionFor20
    \/ NodeSetInstallDir("L27", "L28", V2_0_12)
    \/ Configure("L28", "L29")
    \/ NodeStop("L29", "L31")
    \/ Configure("L31", "L33")
    \/ NodeStart("L33", "L40")
    \/ Connect("L40", "L41")
    \/ LoadData
    \/ SessionShutdown("L49", "L50")
    \/ NodeDrain("L50", "L51")
    \/ WatchLogForDrained("L51", "L52")
    \/ NodeStop("L52", "L53")
    \/ ClusterSetInstallDir("L53", "L54", V2_1_3)
    \/ AddOptionFor21
    \/ NodeSetInstallDir("L57", "L61", V2_1_3)
    \/ Configure("L61", "L63")
    \/ Configure("L63", "L65")
    \/ NodeStart("L65", "L67")
    \/ Connect("L67", "L70")
    \/ JmxEnter("L70", "L71")
    \/ JmxRead("L71", "L72")
    \/ AssertIntervalEqual("L72", "L75")
    \/ JmxWrite("L75", "L76", "jmx.write_attribute")
    \/ JmxWrite("L76", "L78", "jmx.execute_method")
    \/ JmxRead("L78", "L81")
    \/ AssertIntervalGreater
    \/ SessionShutdown("L84", "L85")
    \/ NodeDrain("L85", "L86")
    \/ WatchLogForDrained("L86", "L87")
    \/ NodeStop("L87", "L88")
    \/ ClusterSetInstallDir("L88", "L89", original_install_dir)
    \/ RemoveOptionFor30
    \/ NodeSetInstallDir("L94", "L97", original_install_dir)
    \/ Configure("L97", "L99")
    \/ Configure("L99", "L101")
    \/ NodeStart("L101", "L105")
    \/ WatchLogForDetected
    \/ Connect("L107", "L110")
    \/ JmxEnter("L110", "L111")
    \/ JmxRead("L111", "L112")
    \/ AssertIntervalEqual("L112", "L115")
    \/ JmxWrite("L115", "L116", "jmx.write_attribute")
    \/ JmxWrite("L116", "L118", "jmx.execute_method")
    \/ JmxRead("L118", "L121")
    \/ AssertIntervalRestored

SpecUpgrade == InitUpgrade /\ [][NextUpgrade]_vars

Init ==
    /\ db \in DBs(MaxRows)
    /\ calls = <<>> /\ nasserts = 0 /\ last = NoAssertion
    /\ UpgradeIdle

Next ==
    \/ AssertException
    \/ AssertUnavailable
    \/ AssertInvalid
    \/ AssertUnauthorized
    \/ AssertOne
    \/ AssertNone
    \/ AssertAll(UserQueries, RowLists(MaxRows))
    \/ AssertAlmostEqual(SessionNumberLists)
    \/ AssertRowCount
    \/ AssertCrcCheckChanceEqual
    \/ AssertLengthEqual
    \/ Repeat

Spec == Init /\ [][Next]_vars

(* assert_all alone, over longer tables and expected lists. *)
InitAll ==
    /\ db \in {HealthyDB(r, DefaultSchema) : r \in RowLists(MaxSort)}
    /\ calls = <<>> /\ nasserts = 0 /\ last = NoAssertion
    /\ UpgradeIdle

NextAll == AssertAll({SelectAll}, RowLists(MaxSort))

SpecAll == InitAll /\ [][NextAll]_vars

(* assert_almost_equal alone, over every list of numbers of the bounds. *)
InitAlmostEqual == SessionIdle /\ UpgradeIdle

NextAlmostEqual == AssertAlmostEqual(NumberLists)

SpecAlmostEqual == InitAlmostEqual /\ [][NextAlmostEqual]_vars

----------------------------------------------------------------------------
(* Properties.  Each is stated about the most recent assertion (last) and   *)
(* the system it ran against (db), with the words of the claim restated     *)
(* independently of the helper's own computation where a computation is     *)
(* what the claim is about.                                                 *)

Count(x, s) == Cardinality({i \in DOMAIN s : s[i] = x})
IsPermutation(a, b) ==
    /\ Len(a) = Len(b)
    /\ \A x \in Range(a) \cup Range(b) : Count(x, a) = Count(x, b)

(* pattern occurs in text: text = prefix \o pattern \o suffix. *)
Contains(text, pattern) ==
    \E i \in 0..Len(text) : \E j \in i..Len(text) : SubSeq(text, i + 1, j) = pattern

Passed == last.outcome.kind = "pass"
Failed == last.outcome.kind = "AssertionError"
Executed == Len(last.sent) = 1
(* What the one call of the last assertion returned or raised. *)
Answer == Invoke(last.on, last.sent[1].fun, last.sent[1].args).res

ExceptionHelpers == {"assert_exception", "assert_invalid", "assert_unauthorized",
                     "assert_unavailable"}
(* The expected set of the last assertion, an exception helper. *)
ExpectedOfLast ==
    CASE last.helper = "assert_unauthorized" -> {"Unauthorized"}
      [] last.helper = "assert_unavailable" ->
            {"Unavailable", "WriteTimeout", "WriteFailure", "ReadTimeout", "ReadFailure"}
      [] OTHER -> IF IsNone(last.args.expected) THEN {} ELSE Get(last.args.expected)
MatchingOfLast ==
    CASE last.helper = "assert_unauthorized" -> Some(last.args.message)
      [] last.helper = "assert_unavailable" -> None
      [] OTHER -> last.args.matching

(* C1: assert_all without ignore_order passes iff the rows the query       *)
(* returned equal the expected list as a sequence; with ignore_order it    *)
(* passes iff they are a permutation of it as a multiset of full rows.     *)
C1_AssertAll ==
    (last.helper = "assert_all" /\ last.args.query = SelectAll) =>
        (Passed <=> IF last.args.ignore_order
                    THEN IsPermutation(db.rows, last.args.expected)
                    ELSE db.rows = last.args.expected)

(* A reordered table with two rows that share their first column passed. *)
C1_Witness ==
    /\ last.helper = "assert_all" /\ last.args.query = SelectAll
    /\ last.args.ignore_order /\ Passed
    /\ db.rows # last.args.expected
    /\ \E i, j \in DOMAIN db.rows :
          db.rows[i][1] = db.rows[j][1] /\ db.rows[i] # db.rows[j]

(* C2: a raised error whose category is not expected leaves the helper     *)
(* unchanged (neither a pass nor an assertion failure); assert_invalid     *)
(* passes iff the query raises an error of the expected category whose     *)
(* message matches the pattern, when one is given.                         *)
C2_Reraise ==
    /\ (last.helper \in ExceptionHelpers /\ Executed /\ Answer.raised
        /\ Answer.err.category \notin ExpectedOfLast)
          => (last.outcome.kind = "raised" /\ last.outcome.err = Answer.err)
    /\ last.helper = "assert_invalid" =>
          (Passed <=>
              /\ Executed /\ Answer.raised
              /\ Answer.err.category \in ExpectedOfLast
              /\ (IsNone(last.args.matching)
                  \/ Contains(Answer.err.msg, Get(last.args.matching))))

(* assert_invalid with the default expectation met Unavailable. *)
C2_Witness ==
    /\ last.helper = "assert_invalid"
    /\ last.args.expected = Some({"InvalidRequest"})
    /\ Executed /\ Answer.raised /\ Answer.err.category = "Unavailable"
    /\ last.outcome.kind = "raised"

(* C3: assert_unavailable calls fun once, with the arguments given or with *)
(* the single argument None when none are given; it passes exactly when    *)
(* fun raises one of Unavailable, WriteTimeout, WriteFailure, ReadTimeout, *)
(* ReadFailure, and ends in the missing-failure assertion failure when fun *)
(* returns.                                                                 *)
C3_Unavailable ==
    last.helper = "assert_unavailable" =>
        /\ Executed
        /\ last.sent[1].fun = last.args.fun
        /\ last.sent[1].args = IF Len(last.args.args) = 0 THEN <<PyNone>>
                               ELSE last.args.args
        /\ Passed <=> (Answer.raised /\ Answer.err.category \in
                         {"Unavailable", "WriteTimeout", "WriteFailure",
                          "ReadTimeout", "ReadFailure"})
        /\ ~Answer.raised =>
              (Failed /\ last.outcome.msg =
                 <<"Expecting query to raise an exception, but nothing was raised.">>)

(* fun was given no arguments, raised ReadFailure, and the helper passed. *)
C3_Witness ==
    /\ last.helper = "assert_unavailable" /\ Len(last.args.args) = 0
    /\ Executed /\ Answer.raised /\ Answer.err.category = "ReadFailure"
    /\ Passed

PctOfLast == IF IsNone(last.args.error) THEN 16 ELSE Get(last.args.error)
MinOfLast == Min(Range(last.args.args))
MaxOfLast == Max(Range(last.args.args))

(* C4 as claimed: assert_almost_equal passes iff min >= max * (1 - e) or   *)
(* all values are equal, a minimum on the boundary included.               *)
C4_Original ==
    last.helper = "assert_almost_equal" =>
        (Passed <=> (100 * MinOfLast >= MaxOfLast * (100 - PctOfLast)
                     \/ MinOfLast = MaxOfLast))

(* C4 as amended: assert_almost_equal passes iff min > max * (1 - e) or    *)
(* all values are equal; a minimum exactly on the boundary does not pass   *)
(* unless it equals the maximum.                                            *)
C4_Amended ==
    last.helper = "assert_almost_equal" =>
        /\ Passed <=> (100 * MinOfLast > MaxOfLast * (100 - PctOfLast)
                       \/ MinOfLast = MaxOfLast)
        /\ (last.args.args = <<10, 11>> /\ PctOfLast = 20) => Passed
        /\ (last.args.args = <<5, 10>> /\ PctOfLast = 20) => ~Passed
        /\ (last.args.args = <<4, 5>> /\ PctOfLast = 20) => ~Passed

(* 4 and 5 with a margin of 20%: the minimum is on the boundary. *)
C4_Witness ==
    /\ last.helper = "assert_almost_equal"
    /\ last.args.args = <<4, 5>> /\ last.args.error = Some(20)
    /\ ~Passed

(* C5: when the query returns rows, assert_one ends in an assertion        *)
(* failure if there are none, more than one, or one that differs from the  *)
(* expected row, and passes only on exactly the expected row.              *)
C5_AssertOne ==
    (last.helper = "assert_one" /\ last.args.query = SelectAll /\ ~Answer.raised) =>
        /\ Len(db.rows) = 0 => Failed
        /\ Len(db.rows) > 1 => Failed
        /\ (Len(db.rows) = 1 /\ db.rows[1] # last.args.expected) => Failed
        /\ Passed <=> (Len(db.rows) = 1 /\ db.rows[1] = last.args.expected)

(* Two rows came back, the first of them the expected one. *)
C5_Witness ==
    /\ last.helper = "assert_one" /\ last.args.query = SelectAll
    /\ Len(db.rows) = 2 /\ db.rows[1] = last.args.expected
    /\ Failed

ComparisonHelpers == {"assert_one", "assert_none", "assert_all", "assert_row_count",
                      "assert_almost_equal", "assert_length_equal"}
(* The last assertion compared and found a difference: it did not pass,    *)
(* and not because the system raised.                                       *)
Mismatch ==
    /\ last.helper \in ComparisonHelpers
    /\ ~Passed
    /\ Len(last.sent) = 0 \/ ~Answer.raised
(* The message names the expected value, the actual one and the query or   *)
(* input, by the argument of the format call that holds each.              *)
CarriesAll(msg) ==
    LET parts == Range(msg) IN
    CASE last.helper = "assert_one" -> {"[expected]", "query", "list_res"} \subseteq parts
      [] last.helper = "assert_none" ->
            {"Expected nothing from ", "query", "list_res"} \subseteq parts
      [] last.helper = "assert_all" -> {"expected", "query", "list_res"} \subseteq parts
      [] last.helper = "assert_row_count" ->
            {"expected", "table_name", "count"} \subseteq parts
      [] last.helper = "assert_almost_equal" -> {"error * 100", "args"} \subseteq parts
      [] OTHER -> {"first", "second", "msg"} \subseteq parts

(* C6: every mismatch a comparison helper detects ends in an assertion     *)
(* failure whose message carries the expected value, the actual value and  *)
(* the query or input.                                                      *)
C6_Claim == Mismatch => (Failed /\ CarriesAll(last.outcome.msg))

(* C7: with a pattern and an error of an expected category, the exception  *)
(* helpers pass iff the pattern occurs somewhere in the message, and end   *)
(* in an assertion failure (not in the re-raised error) when it does not;  *)
(* without a pattern the message is not examined.                          *)
C7_Pattern ==
    (last.helper \in {"assert_exception", "assert_invalid", "assert_unauthorized"}
     /\ Executed /\ Answer.raised /\ Answer.err.category \in ExpectedOfLast) =>
        IF IsNone(MatchingOfLast) THEN Passed
        ELSE /\ Passed <=> Contains(Answer.err.msg, Get(MatchingOfLast))
             /\ ~Contains(Answer.err.msg, Get(MatchingOfLast)) => Failed

(* The pattern b was found inside the message ab, not at its start. *)
C7_Witness ==
    /\ last.helper = "assert_unauthorized" /\ Executed /\ Answer.raised
    /\ Answer.err = Error("Unauthorized", <<"a", "b">>)
    /\ last.args.message = <<"b">>
    /\ Passed

QueryHelpers == {"assert_one", "assert_none", "assert_all", "assert_row_count",
                 "assert_exception", "assert_invalid", "assert_unauthorized",
                 "assert_unavailable", "assert_crc_check_chance_equal"}
(* assert_exception and assert_invalid invoked with expected=None. *)
NoExpectation ==
    last.helper \in {"assert_exception", "assert_invalid"} /\ IsNone(last.args.expected)
StrictlyIncreasing(s) == \A i, j \in DOMAIN s : i < j => s[i] < s[j]

RaisedBeforeExecuting ==
    /\ last.helper = "assert_unavailable"
    /\ last.args.fun.kind = "lambda"
    /\ \/ Len(last.args.args) = 0
       \/ ~HasExecute(last.args.args[1])

(* C8 as amended: a query-executing helper calls the underlying operation  *)
(* exactly once, whether the call returns or raises, except assert_exception*)
(* and assert_invalid invoked with expected=None, which end in an assertion*)
(* failure without calling it; the one call executes exactly one statement,*)
(* except a callable of assert_unavailable that raises before executing    *)
(* its statement, whose error leaves the helper; the statements reach the  *)
(* system in the order of the assertions, each assertion running against   *)
(* the system as its predecessor left it; and an assertion invoked again   *)
(* with the same arguments against a system in the same state ends the     *)
(* same way, whether it passed, failed or raised.                          *)
C8_Always ==
    /\ last.helper \in QueryHelpers =>
          IF NoExpectation THEN Len(last.sent) = 0 /\ Failed
          ELSE IF RaisedBeforeExecuting
          THEN /\ Len(last.sent) = 1 /\ Len(Reached(last.sent)) = 0
               /\ last.outcome = Raised(Error("AttributeError", <<>>))
               /\ \A i \in DOMAIN calls : calls[i] < nasserts
          ELSE /\ Len(last.sent) = 1 /\ Len(Reached(last.sent)) = 1
               /\ calls # <<>> /\ calls[Len(calls)] = nasserts
    /\ StrictlyIncreasing(calls)
    /\ \A i \in DOMAIN calls : calls[i] \in 1..nasserts
C8_Step ==
    /\ nasserts' = nasserts + 1
    /\ last'.on = db
    /\ Len(calls') = Len(calls) + Len(Reached(last'.sent))
    /\ SubSeq(calls', 1, Len(calls)) = calls
    /\ (last'.helper = last.helper /\ last'.args = last.args /\ last'.on = last.on) =>
          last'.outcome = last.outcome
C9_Claim ==
    (last.helper = "assert_crc_check_chance_equal" /\ ~Answer.raised) =>
        LET src == IF last.args.view THEN "system_schema.views"
                   ELSE "system_schema.tables"
        IN /\ Get(last.sent[1].statement).query.src = src
           /\ Get(last.sent[1].statement).query.ks = last.args.ks
           /\ Get(last.sent[1].statement).query.name = last.args.table
           /\ Passed <=> (/\ last.args.table = SchemaTable
                          /\ db.schema[<<src, last.args.ks>>] = last.args.expected)

UpgradeEvents == {"shutdown", "drain", "DRAINED", "stop", "cluster.set_install_dir",
                  "node.set_install_dir", "start"}
IsUpgradeEvent(e) == e \in UpgradeEvents
SetInstallDirLines == {"L23", "L27", "L53", "L57", "L88", "L94"}
JmxLines == {"L71", "L75", "L76", "L78", "L111", "L115", "L116", "L118"}
JmxEvents == {"jmx.read_attribute", "jmx.write_attribute", "jmx.execute_method"}

(* C10: in test_upgrade_index_summary an install dir is set, and changes,  *)
(* only while the node is not running; each upgrade runs session shutdown, *)
(* drain, DRAINED seen, stop, cluster.set_install_dir, node.set_install_dir*)
(* and start in this order; JMX is read and written only while the node is *)
(* running; and the node never runs 2.0.12 with memtable_allocation_type   *)
(* in the cluster configuration.                                            *)
C10_Always ==
    /\ pc \in SetInstallDirLines => node_status # "UP"
    /\ pc \in JmxLines => (node_status = "UP" /\ jmx)
    /\ (node_status = "UP" /\ (node_dir = V2_0_12 \/ cluster_dir = V2_0_12))
          => MemtableOption \notin config
    /\ pc \in {"L67", "L105"} =>
          SelectSeq(events, IsUpgradeEvent) =
              <<"shutdown", "drain", "DRAINED", "stop", "cluster.set_install_dir",
                "node.set_install_dir", "start">>
C10_Step ==
    /\ (cluster_dir' # cluster_dir \/ node_dir' # node_dir)
          => (node_status # "UP" /\ node_status' # "UP")
    /\ (Len(events') = Len(events) + 1 /\ events'[Len(events')] \in JmxEvents)
          => (node_status = "UP" /\ node_status' = "UP")
(* C10: C10_Step holds of every statement of the script and C10_Always of *)
(* every state it passes through.                                           *)
C10_Upgrade == [][C10_Step]_vars /\ []C10_Always

(* The test ran to its end on an off-heap configuration and a 3.0 install  *)
(* dir, through both upgrades.                                              *)
C10_Witness ==
    /\ pc = "done" /\ env.offheap /\ env.had_option
    /\ cluster_dir = V3_0_3 /\ node_dir = V3_0_3 /\ node_status = "UP"

====
